---- MODULE Spec2Model ----
(***************************************************************************)
(* Authentication and impersonation session core of TruLedgr-API:          *)
(* truledgr_api/utils/auth.py and truledgr_api/routers/auth.py.            *)
(*                                                                         *)
(* Times are minutes since the start of the behaviour.  A datetime is a    *)
(* record [t, tz]: Python refuses to order an offset-naive and an          *)
(* offset-aware datetime (TypeError), and the DateTime() columns of        *)
(* user_sessions / impersonation_sessions hand back naive values.          *)
(* ULIDs are drawn from one increasing counter.  A JWT is modelled by the  *)
(* claims it carries; only tokens the server has signed are presented.     *)
(***************************************************************************)
EXTENDS Integers, Sequences, FiniteSets, TLC

VARIABLES
    users,          \* users table: id -> row
    sessions,       \* user_sessions table, in insertion order
    impersonations, \* impersonation_sessions table, in insertion order
    issued,         \* every token the server has returned to a client
    now,            \* wall clock, minutes
    nextUlid,       \* next value ULID() returns
    updates,        \* number of PUT /users/{id} calls that changed a row
    refreshReq,     \* POST /auth/refresh between its SELECT and its answer
    revokedTokens,  \* history: session tokens of rows set to Revoked by revoke / revoke_all
    endedIds,       \* history: ids of impersonation sessions ended with success
    loggedOut,      \* history: session tokens whose DELETE /auth/logout answered 200
    endReq          \* DELETE /auth/impersonations between its SELECT and its commit

vars == <<users, sessions, impersonations, issued, now, nextUlid, updates,
          refreshReq, revokedTokens, endedIds, loggedOut, endReq>>

----------------------------------------------------------------------------
(* Bounds of the model *)

MaxWrites == 3
MaxTicks == 2

(* Program constants, in minutes *)

ACCESS_TOKEN_MINUTES == 15
DEFAULT_ACCESS_TOKEN_MINUTES == 15
REFRESH_TOKEN_MINUTES == 10080
SESSION_MINUTES == 60
IMPERSONATION_MINUTES == 120
IMPERSONATION_REFRESH_MINUTES == 120

(* The clock is sampled once per session lifetime *)
TickStep == SESSION_MINUTES

MaxNow == MaxTicks * TickStep

----------------------------------------------------------------------------
(* Values *)

UserIds == {"u_admin", "u_alice"}
Usernames == {"admin", "alice"}
Passwords == {"secret", "wrong"}
Reasons == {"support"}

NoUser == "none"
NoUlid == 0
NoReason == "none"

ACTIVE == "active"
EXPIRED == "expired"
REVOKED == "revoked"

NoTime == [t |-> -1, tz |-> "none"]

NoToken ==
    [sub |-> NoUser, session_token |-> NoUlid, type |-> "none", exp |-> -1,
     impersonation |-> FALSE, admin_user_id |-> NoUser,
     impersonation_session_id |-> NoUlid]

NoCtx ==
    [admin_user_id |-> NoUser, impersonation_session_id |-> NoUlid,
     session_token |-> NoUlid, reason |-> NoReason]

NoRow ==
    [id |-> NoUlid, user_id |-> NoUser, session_token |-> NoUlid,
     refresh_token |-> NoUlid, status |-> "none", expires_at |-> NoTime]

Idle == [pc |-> "idle", token |-> NoToken, row |-> NoRow]

EndIdle == [pc |-> "idle", admin |-> NoUser, session_id |-> NoUlid, row |-> 0]

----------------------------------------------------------------------------
(* datetime *)

UtcNow(n) == [t |-> n, tz |-> "utc"]

ReplaceTzNone(d) == [d EXCEPT !.tz = "naive"]

PlusMinutes(d, m) == [d EXCEPT !.t = d.t + m]

DbDateTime(d) == [d EXCEPT !.tz = "naive"]

Comparable(a, b) == a.tz = b.tz

Before(a, b) == a.t < b.t

----------------------------------------------------------------------------
(* Credential Verifier *)

get_password_hash(password) == <<"bcrypt", password>>

verify_password(plain_password, hashed_password) ==
    get_password_hash(plain_password) = hashed_password

----------------------------------------------------------------------------
(* Token Codec *)

create_access_token(data, n, expires_delta) ==
    [data EXCEPT !.exp = n + expires_delta, !.type = "access"]

create_refresh_token(data, n, expires_delta) ==
    [data EXCEPT !.exp = n + expires_delta, !.type = "refresh"]

verify_token(token, n) ==
    IF token = NoToken \/ token.exp < n THEN NoToken ELSE token

OrdinaryClaims(user_id, session_token) ==
    [NoToken EXCEPT !.sub = user_id, !.session_token = session_token]

(* Mutant: the token's subject is the admin instead of the target *)
ImpersonationClaims_SubAdmin(target_user_id, session_token, admin_user_id, imp_id) ==
    [NoToken EXCEPT !.sub = admin_user_id, !.session_token = session_token,
                    !.impersonation = TRUE, !.admin_user_id = admin_user_id,
                    !.impersonation_session_id = imp_id]

ImpersonationClaims(target_user_id, session_token, admin_user_id, imp_id) ==
    [NoToken EXCEPT !.sub = target_user_id, !.session_token = session_token,
                    !.impersonation = TRUE, !.admin_user_id = admin_user_id,
                    !.impersonation_session_id = imp_id]

----------------------------------------------------------------------------
(* Session Store queries *)

MinOf(S) == CHOOSE x \in S : \A y \in S : x <= y

FirstIndex(hits) == IF hits = {} THEN 0 ELSE MinOf(hits)

UserByUsername(tbl, username) ==
    LET hits == {u \in DOMAIN tbl : tbl[u].username = username}
    IN  IF hits = {} THEN NoUser ELSE CHOOSE u \in hits : TRUE

UserById(tbl, user_id) ==
    IF user_id \in DOMAIN tbl THEN user_id ELSE NoUser

----------------------------------------------------------------------------
(* Liveness check of a session row: the outcome of                         *)
(*   "not session or session.expires_at < <current time>"                  *)
(* "ok" when the row passes, "dead" when the request is refused, "error"   *)
(* when Python raises TypeError on the comparison.                         *)

(* Mutant: a row that is found is never tested against the clock *)
ExpiryCheck_FoundOnly(found, expires_at, current) ==
    IF ~found THEN "dead" ELSE "ok"

ExpiryCheck(found, expires_at, current) ==
    IF ~found THEN "dead"
    ELSE IF ~Comparable(expires_at, current) THEN "error"
    ELSE IF Before(expires_at, current) THEN "dead"
    ELSE "ok"

(* Mutant: the SELECT forgets "status == ACTIVE" *)
ActiveUserSession_AnyStatus(S, session_token) ==
    FirstIndex({i \in DOMAIN S : S[i].session_token = session_token})

ActiveUserSession(S, session_token) ==
    FirstIndex({i \in DOMAIN S : /\ S[i].session_token = session_token
                                 /\ S[i].status = ACTIVE})

(* Mutant: the SELECT forgets "status == ACTIVE" *)
ActiveImpersonation_AnyStatus(I, session_token) ==
    FirstIndex({i \in DOMAIN I : I[i].session_token = session_token})

ActiveImpersonation(I, session_token) ==
    FirstIndex({i \in DOMAIN I : /\ I[i].session_token = session_token
                                 /\ I[i].status = ACTIVE})

(* Mutant: the resolver trusts the token and does not re-read the store *)
UserSessionCheck_TrustToken(S, session_token, current) == "ok"

UserSessionCheck(S, session_token, current) ==
    LET i == ActiveUserSession(S, session_token)
    IN  ExpiryCheck(i # 0, IF i # 0 THEN S[i].expires_at ELSE NoTime, current)

ImpersonationCheck(I, session_token, current) ==
    LET i == ActiveImpersonation(I, session_token)
    IN  ExpiryCheck(i # 0, IF i # 0 THEN I[i].expires_at ELSE NoTime, current)

(* Mutant: only the first matching row is returned *)
get_active_sessions_First(S, user_id, n) ==
    LET hits == {i \in DOMAIN S :
                    /\ S[i].user_id = user_id
                    /\ S[i].status = ACTIVE
                    /\ S[i].expires_at.t > ReplaceTzNone(UtcNow(n)).t}
    IN  IF hits = {} THEN {} ELSE {MinOf(hits)}

get_active_sessions(S, user_id, n) ==
    {i \in DOMAIN S :
        /\ S[i].user_id = user_id
        /\ S[i].status = ACTIVE
        /\ S[i].expires_at.t > ReplaceTzNone(UtcNow(n)).t}

(* Mutant: the SELECT also asks for "status == ACTIVE" *)
get_impersonation_sessions_ActiveOnly(I, admin_user_id) ==
    {i \in DOMAIN I : I[i].admin_user_id = admin_user_id /\ I[i].status = ACTIVE}

get_impersonation_sessions(I, admin_user_id) ==
    {i \in DOMAIN I : I[i].admin_user_id = admin_user_id}

----------------------------------------------------------------------------
(* Identity Resolver *)

Resolved(user, ctx) ==
    [ok |-> TRUE, code |-> 200, detail |-> "", user |-> user, ctx |-> ctx]

Refused(code, detail) ==
    [ok |-> FALSE, code |-> code, detail |-> detail, user |-> NoUser, ctx |-> NoCtx]

CredentialsException == Refused(401, "Could not validate credentials")

ServerError == Refused(500, "Internal Server Error")

(* Mutant: an impersonation token skips the user_sessions look-up *)
get_current_user_ImpersonationAware(token, n, U, S) ==
    LET payload == verify_token(token, n)
        user_id == payload.sub
        session_token == payload.session_token
        chk == IF session_token # NoUlid /\ ~payload.impersonation
               THEN UserSessionCheck(S, session_token, ReplaceTzNone(UtcNow(n)))
               ELSE "ok"
        user == UserById(U, user_id)
    IN  IF payload = NoToken THEN CredentialsException
        ELSE IF user_id = NoUser THEN CredentialsException
        ELSE IF chk = "error" THEN ServerError
        ELSE IF chk = "dead" THEN CredentialsException
        ELSE IF user = NoUser THEN CredentialsException
        ELSE Resolved(user, NoCtx)

get_current_user(token, n, U, S) ==
    LET payload == verify_token(token, n)
        user_id == payload.sub
        session_token == payload.session_token
        chk == IF session_token # NoUlid
               THEN UserSessionCheck(S, session_token, ReplaceTzNone(UtcNow(n)))
               ELSE "ok"
        user == UserById(U, user_id)
    IN  IF payload = NoToken THEN CredentialsException
        ELSE IF user_id = NoUser THEN CredentialsException
        ELSE IF chk = "error" THEN ServerError
        ELSE IF chk = "dead" THEN CredentialsException
        ELSE IF user = NoUser THEN CredentialsException
        ELSE Resolved(user, NoCtx)

get_admin_dependency(token, n, U, S) ==
    LET current_user == get_current_user(token, n, U, S)
    IN  IF ~current_user.ok THEN current_user
        ELSE IF ~U[current_user.user].is_admin
             THEN Refused(403, "Admin privileges required")
        ELSE current_user

get_current_user_with_impersonation(token, n, U, S, I) ==
    LET payload == verify_token(token, n)
        user_id == payload.sub
        session_token == payload.session_token
        impersonation_session_id == payload.impersonation_session_id
        admin_user_id == payload.admin_user_id
        checked == session_token # NoUlid /\ impersonation_session_id # NoUlid
        ichk == IF checked
                THEN ImpersonationCheck(I, session_token, ReplaceTzNone(UtcNow(n)))
                ELSE "ok"
        uchk == IF session_token # NoUlid
                THEN UserSessionCheck(S, session_token, ReplaceTzNone(UtcNow(n)))
                ELSE "ok"
        imp_session == ActiveImpersonation(I, session_token)
        ctx == IF checked
               THEN [admin_user_id |-> admin_user_id,
                     impersonation_session_id |-> impersonation_session_id,
                     session_token |-> session_token,
                     reason |-> I[imp_session].reason]
               ELSE NoCtx
        user == UserById(U, user_id)
    IN  IF payload = NoToken THEN CredentialsException
        ELSE IF user_id = NoUser THEN CredentialsException
        ELSE IF payload.impersonation /\ ichk = "error" THEN ServerError
        ELSE IF payload.impersonation /\ ichk = "dead"
             THEN Refused(401, "Impersonation session expired")
        ELSE IF ~payload.impersonation /\ uchk = "error" THEN ServerError
        ELSE IF ~payload.impersonation /\ uchk = "dead" THEN CredentialsException
        ELSE IF user = NoUser THEN CredentialsException
        ELSE Resolved(user, IF payload.impersonation THEN ctx ELSE NoCtx)

----------------------------------------------------------------------------
(* Initial state: the admin and an ordinary account, as the impersonation  *)
(* tests create them; no session yet.                                      *)

InitUsers ==
    [u \in UserIds |->
        [username |-> IF u = "u_admin" THEN "admin" ELSE "alice",
         hashed_password |-> get_password_hash("secret"),
         is_active |-> TRUE,
         is_admin |-> (u = "u_admin")]]

Init ==
    /\ users = InitUsers
    /\ sessions = << >>
    /\ impersonations = << >>
    /\ issued = {}
    /\ now = 0
    /\ nextUlid = 1
    /\ updates = 0
    /\ refreshReq = Idle
    /\ revokedTokens = {}
    /\ endedIds = {}
    /\ loggedOut = {}
    /\ endReq = EndIdle

(* Rows inserted and user rows updated so far *)
Writes == Len(sessions) + Len(impersonations) + updates

----------------------------------------------------------------------------
(* Responses: status code, detail, and the body fields the claims read *)

Response(code, detail) ==
    [code |-> code, detail |-> detail, user |-> NoUser,
     access |-> NoToken, refresh |-> NoToken, sid |-> NoUlid, listed |-> {}]

AuthFailure(auth) == Response(auth.code, auth.detail)

----------------------------------------------------------------------------
(* Session Manager *)

NewUserSession(user_id, n, ulid) ==
    [id |-> ulid + 2,
     user_id |-> user_id,
     session_token |-> ulid,
     refresh_token |-> ulid + 1,
     status |-> ACTIVE,
     expires_at |-> DbDateTime(PlusMinutes(UtcNow(n), SESSION_MINUTES))]

(* Mutant: the tokens carry the row's refresh_token as their correlator *)
create_user_session_WrongCorrelator(user_id, n, ulid) ==
    [row |-> NewUserSession(user_id, n, ulid),
     access_token |-> create_access_token(OrdinaryClaims(user_id, ulid + 1), n,
                                          ACCESS_TOKEN_MINUTES),
     refresh_token |-> create_refresh_token(OrdinaryClaims(user_id, ulid + 1), n,
                                            REFRESH_TOKEN_MINUTES)]

create_user_session(user_id, n, ulid) ==
    [row |-> NewUserSession(user_id, n, ulid),
     access_token |-> create_access_token(OrdinaryClaims(user_id, ulid), n,
                                          ACCESS_TOKEN_MINUTES),
     refresh_token |-> create_refresh_token(OrdinaryClaims(user_id, ulid), n,
                                            REFRESH_TOKEN_MINUTES)]

(* Mutant: the account's active flag is not tested *)
LoginCheck_NoActiveTest(username, password, U) ==
    LET user == UserByUsername(U, username)
    IN  IF user = NoUser \/ ~verify_password(password, U[user].hashed_password)
        THEN Refused(401, "Incorrect username or password")
        ELSE Resolved(user, NoCtx)

(* Mutant: the account's active flag is tested before the password *)
LoginCheck_ActiveFirst(username, password, U) ==
    LET user == UserByUsername(U, username)
    IN  IF user = NoUser THEN Refused(401, "Incorrect username or password")
        ELSE IF ~U[user].is_active THEN Refused(400, "Inactive user")
        ELSE IF ~verify_password(password, U[user].hashed_password)
        THEN Refused(401, "Incorrect username or password")
        ELSE Resolved(user, NoCtx)

(* POST /auth/login: the credential and account checks *)
LoginCheck(username, password, U) ==
    LET user == UserByUsername(U, username)
    IN  IF user = NoUser \/ ~verify_password(password, U[user].hashed_password)
        THEN Refused(401, "Incorrect username or password")
        ELSE IF ~U[user].is_active THEN Refused(400, "Inactive user")
        ELSE Resolved(user, NoCtx)

LoginResponse(username, password, U, n, ulid) ==
    LET chk == LoginCheck(username, password, U)
        made == create_user_session(chk.user, n, ulid)
    IN  IF ~chk.ok THEN AuthFailure(chk)
        ELSE [Response(200, "") EXCEPT !.user = chk.user,
                                       !.access = made.access_token,
                                       !.refresh = made.refresh_token,
                                       !.sid = made.row.id]

(* The user_sessions table after POST /auth/login *)
LoginRows(username, password, U, S, n, ulid) ==
    LET chk == LoginCheck(username, password, U)
    IN  IF ~chk.ok THEN S
        ELSE Append(S, create_user_session(chk.user, n, ulid).row)

Login(username, password) ==
    LET chk == LoginCheck(username, password, users)
        made == create_user_session(chk.user, now, nextUlid)
    IN  IF ~chk.ok
        THEN UNCHANGED vars
        ELSE /\ Writes < MaxWrites
             /\ sessions' = LoginRows(username, password, users, sessions,
                                      now, nextUlid)
             /\ nextUlid' = nextUlid + 3
             /\ issued' = issued \cup {made.access_token, made.refresh_token}
             /\ UNCHANGED <<endReq, users, impersonations, now, updates, refreshReq,
                            revokedTokens, endedIds, loggedOut>>

(* Mutant: the handler does not look at the token's type *)
RefreshRejectsToken_AnyType(token, n) ==
    LET payload == verify_token(token, n)
    IN  \/ payload = NoToken
        \/ payload.sub = NoUser
        \/ payload.session_token = NoUlid

(* POST /auth/refresh up to its SELECT: TRUE when the token is turned away *)
RefreshRejectsToken(token, n) ==
    LET payload == verify_token(token, n)
    IN  \/ payload = NoToken
        \/ payload.type # "refresh"
        \/ payload.sub = NoUser
        \/ payload.session_token = NoUlid

RefreshSelect(token, S) ==
    LET i == ActiveUserSession(S, token.session_token)
    IN  IF i = 0 THEN NoRow ELSE S[i]

RefreshCheck(row, n) ==
    ExpiryCheck(row # NoRow, row.expires_at, UtcNow(n))

(* POST /auth/refresh: the access token the handler builds *)
RefreshMint(token, n) ==
    create_access_token(OrdinaryClaims(token.sub, token.session_token),
                        n, DEFAULT_ACCESS_TOKEN_MINUTES)

(* POST /auth/refresh from the row it read to its answer *)
RefreshAnswer(token, row, n) ==
    LET chk == RefreshCheck(row, n)
        access_token == RefreshMint(token, n)
    IN  IF chk = "dead" THEN Response(401, "Session expired")
        ELSE IF chk = "error" THEN Response(500, "Internal Server Error")
        ELSE [Response(200, "") EXCEPT !.user = token.sub,
                                       !.access = access_token,
                                       !.refresh = token]

RefreshResponse(token, n, S) ==
    IF RefreshRejectsToken(token, n)
    THEN Response(401, "Invalid refresh token")
    ELSE RefreshAnswer(token, RefreshSelect(token, S), n)

(* POST /auth/refresh, first half: decode the token and SELECT the row *)
RefreshRead(token) ==
    /\ refreshReq = Idle
    /\ ~RefreshRejectsToken(token, now)
    /\ refreshReq' = [pc |-> "read", token |-> token,
                      row |-> RefreshSelect(token, sessions)]
    /\ UNCHANGED <<endReq, users, sessions, impersonations, issued, now, nextUlid,
                   updates, revokedTokens, endedIds, loggedOut>>

(* Mutant: refresh slides the session's expiry forward *)
RefreshFinish_Sliding ==
    LET answer == RefreshAnswer(refreshReq.token, refreshReq.row, now)
    IN  /\ refreshReq.pc = "read"
        /\ refreshReq' = Idle
        /\ issued' = IF answer.code = 200 THEN issued \cup {answer.access}
                     ELSE issued
        /\ sessions' = [i \in DOMAIN sessions |->
                           IF sessions[i].session_token = refreshReq.token.session_token
                           THEN [sessions[i] EXCEPT !.expires_at =
                                    DbDateTime(PlusMinutes(UtcNow(now), SESSION_MINUTES))]
                           ELSE sessions[i]]
        /\ UNCHANGED <<endReq, users, impersonations, now, nextUlid, updates,
                       revokedTokens, endedIds, loggedOut>>

(* POST /auth/refresh, second half: test the row it read and answer *)
RefreshFinish ==
    LET answer == RefreshAnswer(refreshReq.token, refreshReq.row, now)
    IN  /\ refreshReq.pc = "read"
        /\ refreshReq' = Idle
        /\ issued' = IF answer.code = 200 THEN issued \cup {answer.access}
                     ELSE issued
        /\ UNCHANGED <<endReq, users, sessions, impersonations, now, nextUlid, updates,
                       revokedTokens, endedIds, loggedOut>>

(* POST /auth/refresh served without another request in between *)
Refresh(token) ==
    LET answer == RefreshResponse(token, now, sessions)
    IN  /\ refreshReq = Idle
        /\ issued' = IF answer.code = 200 THEN issued \cup {answer.access}
                     ELSE issued
        /\ UNCHANGED <<endReq, users, sessions, impersonations, now, nextUlid, updates,
                       refreshReq, revokedTokens, endedIds, loggedOut>>

LogoutResponse(token, n, U, S) ==
    LET auth == get_current_user(token, n, U, S)
    IN  IF ~auth.ok THEN AuthFailure(auth)
        ELSE [Response(200, "Successfully logged out") EXCEPT !.user = auth.user]

Logout(token) ==
    LET answer == LogoutResponse(token, now, users, sessions)
    IN  /\ loggedOut' = IF answer.code = 200
                        THEN loggedOut \cup {token.session_token}
                        ELSE loggedOut
        /\ UNCHANGED <<endReq, users, sessions, impersonations, issued, now, nextUlid,
                       updates, refreshReq, revokedTokens, endedIds>>

(* GET /auth/me and GET /auth/sessions *)
MeResponse(token, n, U, S) ==
    LET auth == get_current_user(token, n, U, S)
        listed == get_active_sessions(S, auth.user, n)
    IN  IF ~auth.ok THEN AuthFailure(auth)
        ELSE [Response(200, "") EXCEPT !.user = auth.user,
                                       !.listed = {S[i].id : i \in listed}]

(* Mutant: the SELECT forgets "user_id == current_user.id" *)
RevokeSelect_AnyOwner(S, session_id, user_id) ==
    FirstIndex({i \in DOMAIN S : S[i].id = session_id})

RevokeSelect(S, session_id, user_id) ==
    FirstIndex({i \in DOMAIN S : S[i].id = session_id /\ S[i].user_id = user_id})

RevokeResponse(token, session_id, n, U, S) ==
    LET auth == get_current_user(token, n, U, S)
    IN  IF ~auth.ok THEN AuthFailure(auth)
        ELSE IF RevokeSelect(S, session_id, auth.user) = 0
        THEN [Response(404, "Session not found") EXCEPT !.user = auth.user]
        ELSE [Response(200, "Session revoked successfully")
                 EXCEPT !.user = auth.user, !.sid = session_id]

(* Mutant: revoking a row that is not Active makes it Active again *)
RevokeSession_Toggle(token, session_id) ==
    LET answer == RevokeResponse(token, session_id, now, users, sessions)
        i == RevokeSelect(sessions, session_id, answer.user)
    IN  IF answer.code # 200
        THEN UNCHANGED vars
        ELSE /\ sessions' = [sessions EXCEPT ![i].status =
                                IF sessions[i].status = ACTIVE THEN REVOKED
                                ELSE ACTIVE]
             /\ revokedTokens' = revokedTokens \cup {sessions[i].session_token}
             /\ UNCHANGED <<endReq, users, impersonations, issued, now, nextUlid, updates,
                            refreshReq, endedIds, loggedOut>>

RevokeSession(token, session_id) ==
    LET answer == RevokeResponse(token, session_id, now, users, sessions)
        i == RevokeSelect(sessions, session_id, answer.user)
    IN  IF answer.code # 200
        THEN UNCHANGED vars
        ELSE /\ sessions' = [sessions EXCEPT ![i].status = REVOKED]
             /\ revokedTokens' = revokedTokens \cup {sessions[i].session_token}
             /\ UNCHANGED <<endReq, users, impersonations, issued, now, nextUlid, updates,
                            refreshReq, endedIds, loggedOut>>

RevokeAllResponse(token, n, U, S) ==
    LET auth == get_current_user(token, n, U, S)
        hit == get_active_sessions(S, auth.user, n)
    IN  IF ~auth.ok THEN AuthFailure(auth)
        ELSE [Response(200, "Revoked sessions") EXCEPT
                 !.user = auth.user, !.listed = {S[i].id : i \in hit}]

(* The user_sessions table after DELETE /auth/sessions *)
RevokeAllRows(token, n, U, S) ==
    LET answer == RevokeAllResponse(token, n, U, S)
        hit == get_active_sessions(S, answer.user, n)
    IN  IF answer.code # 200 THEN S
        ELSE [i \in DOMAIN S |->
                 IF i \in hit THEN [S[i] EXCEPT !.status = REVOKED] ELSE S[i]]

RevokeAll(token) ==
    LET answer == RevokeAllResponse(token, now, users, sessions)
        hit == get_active_sessions(sessions, answer.user, now)
    IN  IF answer.code # 200
        THEN UNCHANGED vars
        ELSE /\ sessions' = RevokeAllRows(token, now, users, sessions)
             /\ revokedTokens' = revokedTokens
                                   \cup {sessions[i].session_token : i \in hit}
             /\ UNCHANGED <<endReq, users, impersonations, issued, now, nextUlid, updates,
                            refreshReq, endedIds, loggedOut>>

----------------------------------------------------------------------------
(* Impersonation Manager *)

TargetInputs == UserIds \cup {"u_ghost"}

(* Column defaults of the ImpersonationSession table model *)
ImpersonationSessionDefaults == [status |-> ACTIVE, ended_at |-> NoTime]

NewImpersonationSession(admin_user_id, target_user_id, reason, n, ulid) ==
    [id |-> ulid + 1,
     admin_user_id |-> admin_user_id,
     target_user_id |-> target_user_id,
     session_token |-> ulid,
     reason |-> reason,
     expires_at |-> DbDateTime(PlusMinutes(UtcNow(n), IMPERSONATION_MINUTES)),
     ended_at |-> ImpersonationSessionDefaults.ended_at,
     status |-> ImpersonationSessionDefaults.status]

(* Mutant: the target's active flag is not tested *)
TargetUsable_ExistsOnly(U, target_user_id) ==
    UserById(U, target_user_id) # NoUser

TargetUsable(U, target_user_id) ==
    UserById(U, target_user_id) # NoUser /\ U[target_user_id].is_active

(* Mutant: the refresh token is built from sub and session_token alone *)
create_impersonation_session_PlainRefresh(admin_user_id, target_user_id, reason, n, ulid) ==
    LET row == NewImpersonationSession(admin_user_id, target_user_id, reason, n, ulid)
        claims == ImpersonationClaims(target_user_id, row.session_token,
                                      admin_user_id, row.id)
    IN  [row |-> row,
         access_token |-> create_access_token(claims, n, ACCESS_TOKEN_MINUTES),
         refresh_token |-> create_refresh_token(
                               OrdinaryClaims(target_user_id, row.session_token),
                               n, IMPERSONATION_REFRESH_MINUTES)]

create_impersonation_session(admin_user_id, target_user_id, reason, n, ulid) ==
    LET row == NewImpersonationSession(admin_user_id, target_user_id, reason, n, ulid)
        claims == ImpersonationClaims(target_user_id, row.session_token,
                                      admin_user_id, row.id)
    IN  [row |-> row,
         access_token |-> create_access_token(claims, n, ACCESS_TOKEN_MINUTES),
         refresh_token |-> create_refresh_token(claims, n,
                                                IMPERSONATION_REFRESH_MINUTES)]

(* Mutant: the self-impersonation test is missing *)
SelfImpersonation_Unchecked(admin_id, target_user_id) == FALSE

SelfImpersonation(admin_id, target_user_id) == admin_id = target_user_id

(* POST /auth/impersonations *)
StartResponse(token, target_user_id, reason, n, U, S, ulid) ==
    LET admin == get_admin_dependency(token, n, U, S)
        made == create_impersonation_session(admin.user, target_user_id, reason,
                                             n, ulid)
    IN  IF ~admin.ok THEN AuthFailure(admin)
        ELSE IF SelfImpersonation(admin.user, target_user_id)
        THEN [Response(400, "Cannot impersonate yourself") EXCEPT !.user = admin.user]
        ELSE IF ~TargetUsable(U, target_user_id)
        THEN [Response(404, "Target user not found or inactive")
                 EXCEPT !.user = admin.user]
        ELSE [Response(200, "") EXCEPT !.user = admin.user,
                                       !.access = made.access_token,
                                       !.refresh = made.refresh_token,
                                       !.sid = made.row.id]

(* The impersonation_sessions table after POST /auth/impersonations *)
StartRows(token, target_user_id, reason, n, U, S, I, ulid) ==
    LET answer == StartResponse(token, target_user_id, reason, n, U, S, ulid)
        made == create_impersonation_session(answer.user, target_user_id, reason,
                                             n, ulid)
    IN  IF answer.code # 200 THEN I ELSE Append(I, made.row)

StartImpersonation(token, target_user_id, reason) ==
    LET answer == StartResponse(token, target_user_id, reason, now, users,
                                sessions, nextUlid)
        made == create_impersonation_session(answer.user, target_user_id, reason,
                                             now, nextUlid)
    IN  IF answer.code # 200
        THEN UNCHANGED vars
        ELSE /\ Writes < MaxWrites
             /\ impersonations' = StartRows(token, target_user_id, reason, now,
                                            users, sessions, impersonations,
                                            nextUlid)
             /\ nextUlid' = nextUlid + 2
             /\ issued' = issued \cup {made.access_token, made.refresh_token}
             /\ UNCHANGED <<endReq, users, sessions, now, updates, refreshReq,
                            revokedTokens, endedIds, loggedOut>>

(* Mutant: the SELECT forgets "admin_user_id == admin_user_id" *)
end_impersonation_session_AnyAdmin(I, session_id, admin_user_id) ==
    FirstIndex({i \in DOMAIN I : /\ I[i].id = session_id
                                 /\ I[i].status = ACTIVE})

end_impersonation_session(I, session_id, admin_user_id) ==
    FirstIndex({i \in DOMAIN I : /\ I[i].id = session_id
                                 /\ I[i].admin_user_id = admin_user_id
                                 /\ I[i].status = ACTIVE})

(* DELETE /auth/impersonations *)
EndResponse(token, session_id, n, U, S, I) ==
    LET admin == get_admin_dependency(token, n, U, S)
    IN  IF ~admin.ok THEN AuthFailure(admin)
        ELSE IF session_id = NoUlid
        THEN [Response(400, "Impersonation session ID required")
                 EXCEPT !.user = admin.user]
        ELSE IF end_impersonation_session(I, session_id, admin.user) = 0
        THEN [Response(404, "Impersonation session not found")
                 EXCEPT !.user = admin.user]
        ELSE [Response(200, "Impersonation session ended successfully")
                 EXCEPT !.user = admin.user, !.sid = session_id]

(* Mutant: ending an impersonation also revokes the admin's own sessions *)
EndImpersonation_ClosesAdmin(token, session_id) ==
    LET answer == EndResponse(token, session_id, now, users, sessions,
                              impersonations)
        i == end_impersonation_session(impersonations, session_id, answer.user)
    IN  IF answer.code # 200
        THEN UNCHANGED vars
        ELSE /\ impersonations' =
                    [impersonations EXCEPT ![i].ended_at = DbDateTime(UtcNow(now)),
                                           ![i].status = REVOKED]
             /\ sessions' = [j \in DOMAIN sessions |->
                                IF sessions[j].user_id = answer.user
                                THEN [sessions[j] EXCEPT !.status = REVOKED]
                                ELSE sessions[j]]
             /\ endedIds' = endedIds \cup {session_id}
             /\ UNCHANGED <<endReq, users, issued, now, nextUlid, updates,
                            refreshReq, revokedTokens, loggedOut>>

EndImpersonation(token, session_id) ==
    LET answer == EndResponse(token, session_id, now, users, sessions,
                              impersonations)
        i == end_impersonation_session(impersonations, session_id, answer.user)
    IN  IF answer.code # 200
        THEN UNCHANGED vars
        ELSE /\ impersonations' =
                    [impersonations EXCEPT ![i].ended_at = DbDateTime(UtcNow(now)),
                                           ![i].status = REVOKED]
             /\ endedIds' = endedIds \cup {session_id}
             /\ UNCHANGED <<endReq, users, sessions, issued, now, nextUlid, updates,
                            refreshReq, revokedTokens, loggedOut>>

(* DELETE /auth/impersonations, first half: authenticate and SELECT the row *)
EndRead(token, session_id) ==
    LET admin == get_admin_dependency(token, now, users, sessions)
    IN  /\ endReq = EndIdle
        /\ admin.ok
        /\ session_id # NoUlid
        /\ endReq' = [pc |-> "read", admin |-> admin.user,
                      session_id |-> session_id,
                      row |-> end_impersonation_session(impersonations, session_id,
                                                        admin.user)]
        /\ UNCHANGED <<users, sessions, impersonations, issued, now, nextUlid,
                       updates, refreshReq, revokedTokens, endedIds, loggedOut>>

(* The answer of the request in flight, from the row its SELECT returned *)
EndWriteResponse ==
    IF endReq.row = 0
    THEN [Response(404, "Impersonation session not found")
             EXCEPT !.user = endReq.admin]
    ELSE [Response(200, "Impersonation session ended successfully")
             EXCEPT !.user = endReq.admin, !.sid = endReq.session_id]

(* DELETE /auth/impersonations, second half: assign the row it read, commit *)
EndWrite ==
    /\ endReq.pc = "read"
    /\ endReq' = EndIdle
    /\ IF EndWriteResponse.code # 200
       THEN UNCHANGED <<impersonations, endedIds>>
       ELSE /\ impersonations' =
                   [impersonations EXCEPT
                       ![endReq.row].ended_at = DbDateTime(UtcNow(now)),
                       ![endReq.row].status = REVOKED]
            /\ endedIds' = endedIds \cup {endReq.session_id}
    /\ UNCHANGED <<users, sessions, issued, now, nextUlid, updates, refreshReq,
                   revokedTokens, loggedOut>>

(* GET /auth/impersonations *)
ListResponse(token, n, U, S, I) ==
    LET admin == get_admin_dependency(token, n, U, S)
        rows == get_impersonation_sessions(I, admin.user)
        shown == {i \in rows : /\ UserById(U, I[i].admin_user_id) # NoUser
                               /\ UserById(U, I[i].target_user_id) # NoUser}
    IN  IF ~admin.ok THEN AuthFailure(admin)
        ELSE [Response(200, "") EXCEPT !.user = admin.user,
                                       !.listed = {I[i].id : i \in shown}]

ListImpersonations(token) ==
    LET answer == ListResponse(token, now, users, sessions, impersonations)
    IN  /\ answer.code \in {200, 401, 403, 500}
        /\ UNCHANGED vars

(* GET /auth/whoami *)
WhoamiResponse(token, n, U, S, I) ==
    LET auth == get_current_user_with_impersonation(token, n, U, S, I)
    IN  IF ~auth.ok
        THEN [user_id |-> NoUser, is_admin |-> FALSE, is_impersonating |-> FALSE,
              impersonation |-> NoCtx, code |-> auth.code, detail |-> auth.detail]
        ELSE [user_id |-> auth.user, is_admin |-> U[auth.user].is_admin,
              is_impersonating |-> auth.ctx # NoCtx,
              impersonation |-> auth.ctx, code |-> 200, detail |-> ""]

----------------------------------------------------------------------------
(* Collaborators: the users router and the clock *)

UpdateUser(user_id, field, value) ==
    /\ Writes < MaxWrites
    /\ IF field = "is_active"
       THEN /\ users[user_id].is_active # value
            /\ users' = [users EXCEPT ![user_id].is_active = value]
       ELSE /\ users[user_id].is_admin # value
            /\ users' = [users EXCEPT ![user_id].is_admin = value]
    /\ updates' = updates + 1
    /\ UNCHANGED <<endReq, sessions, impersonations, issued, now, nextUlid, refreshReq,
                   revokedTokens, endedIds, loggedOut>>

Tick ==
    /\ now + TickStep <= MaxNow
    /\ now' = now + TickStep
    /\ UNCHANGED <<endReq, users, sessions, impersonations, issued, nextUlid, updates,
                   refreshReq, revokedTokens, endedIds, loggedOut>>

----------------------------------------------------------------------------

(* Ids a client may send: those of existing rows, one no row has, none *)
SessionIdInputs == {sessions[i].id : i \in DOMAIN sessions} \cup {nextUlid}

ImpersonationIdInputs ==
    {impersonations[i].id : i \in DOMAIN impersonations} \cup {NoUlid, nextUlid}

Next ==
    \/ \E username \in Usernames \cup {"ghost"}, password \in Passwords :
          Login(username, password)
    \/ \E token \in issued : Refresh(token)
    \/ \E token \in issued, session_id \in SessionIdInputs :
          RevokeSession(token, session_id)
    \/ \E token \in issued : RevokeAll(token)
    \/ \E token \in issued, target_user_id \in TargetInputs, reason \in Reasons :
          StartImpersonation(token, target_user_id, reason)
    \/ \E token \in issued, session_id \in ImpersonationIdInputs :
          EndImpersonation(token, session_id)
    \/ \E token \in issued : ListImpersonations(token)
    \/ \E user_id \in UserIds, field \in {"is_active", "is_admin"}, value \in BOOLEAN :
          UpdateUser(user_id, field, value)
    \/ Tick

Spec == Init /\ [][Next]_vars

(* The same system with DELETE /auth/logout, which writes nothing to the   *)
(* store; loggedOut remembers the sessions it answered 200 for.            *)
NextLogout ==
    \/ Next
    \/ \E token \in issued : Logout(token)

SpecLogout == Init /\ [][NextLogout]_vars

(* The same system started with both accounts holding the admin flag, as   *)
(* scripts/make_admin.py leaves them.                                      *)
InitAdmins ==
    /\ users = [u \in UserIds |-> [InitUsers[u] EXCEPT !.is_admin = TRUE]]
    /\ sessions = << >>
    /\ impersonations = << >>
    /\ issued = {}
    /\ now = 0
    /\ nextUlid = 1
    /\ updates = 0
    /\ refreshReq = Idle
    /\ revokedTokens = {}
    /\ endedIds = {}
    /\ loggedOut = {}
    /\ endReq = EndIdle

SpecAdmins == InitAdmins /\ [][Next]_vars

(* The same system with POST /auth/refresh served in two steps, so that    *)
(* other requests run between its SELECT and its answer.                   *)
NextRace ==
    \/ \E username \in Usernames \cup {"ghost"}, password \in Passwords :
          Login(username, password)
    \/ \E token \in issued : RefreshRead(token)
    \/ RefreshFinish
    \/ \E token \in issued, session_id \in SessionIdInputs :
          RevokeSession(token, session_id)
    \/ \E token \in issued : RevokeAll(token)
    \/ Tick

SpecRace == Init /\ [][NextRace]_vars

(* The same system with DELETE /auth/impersonations served in two steps    *)
(* for one request, next to requests served in one step.                   *)
NextEndRace ==
    \/ \E username \in Usernames \cup {"ghost"}, password \in Passwords :
          Login(username, password)
    \/ \E token \in issued, target_user_id \in TargetInputs, reason \in Reasons :
          StartImpersonation(token, target_user_id, reason)
    \/ \E token \in issued, session_id \in ImpersonationIdInputs :
          EndImpersonation(token, session_id)
    \/ \E token \in issued, session_id \in ImpersonationIdInputs :
          EndRead(token, session_id)
    \/ EndWrite
    \/ Tick

SpecEndRace == Init /\ [][NextEndRace]_vars

----------------------------------------------------------------------------
(* The resolvers and handlers applied to the current state *)

CurrentUser(token) == get_current_user(token, now, users, sessions)

CurrentUserWithImpersonation(token) ==
    get_current_user_with_impersonation(token, now, users, sessions, impersonations)

AdminGate(token) == get_admin_dependency(token, now, users, sessions)

NaiveNow == ReplaceTzNone(UtcNow(now))

(* Clock readings of requests served after the current one *)
LaterTimes == {now + 1, now + ACCESS_TOKEN_MINUTES, now + SESSION_MINUTES}

(* The stored row a token is correlated to is Active and not past expires_at *)
SessionRowLive(token) ==
    \E i \in DOMAIN sessions :
        /\ sessions[i].session_token = token.session_token
        /\ sessions[i].status = ACTIVE
        /\ ~Before(sessions[i].expires_at, NaiveNow)

ImpersonationRowLive(token) ==
    \E i \in DOMAIN impersonations :
        /\ impersonations[i].id = token.impersonation_session_id
        /\ impersonations[i].session_token = token.session_token
        /\ impersonations[i].status = ACTIVE
        /\ ~Before(impersonations[i].expires_at, NaiveNow)

Unexpired(token) == verify_token(token, now) # NoToken

----------------------------------------------------------------------------
(* C1: once an ordinary session has been set to Revoked by revoke or       *)
(* revoke_all, no access or refresh token issued for it resolves, through  *)
(* either resolver, in any later state.                                    *)
C1_RevokedNeverResolves ==
    \A token \in issued :
        (~token.impersonation /\ token.session_token \in revokedTokens)
            => /\ CurrentUser(token).code = 401
               /\ CurrentUserWithImpersonation(token).code = 401

(* A revoked session whose token is still within its exp and whose row is  *)
(* not past expires_at: only the revocation refuses it.                    *)
C1_Witness ==
    \E token \in issued :
        /\ token.session_token \in revokedTokens
        /\ Unexpired(token)
        /\ \E i \in DOMAIN sessions :
              /\ sessions[i].session_token = token.session_token
              /\ ~Before(sessions[i].expires_at, NaiveNow)
        /\ CurrentUser(token).code = 401

(* C2: after end has succeeded for an impersonation session, no token      *)
(* issued for it resolves to an identity in any later state.               *)
C2_EndedNeverResolves ==
    \A token \in issued :
        (token.impersonation /\ token.impersonation_session_id \in endedIds)
            => /\ CurrentUserWithImpersonation(token).code = 401
               /\ CurrentUser(token).code = 401

C2_Witness ==
    \E token \in issued :
        /\ token.impersonation_session_id \in endedIds
        /\ Unexpired(token)
        /\ \E i \in DOMAIN impersonations :
              /\ impersonations[i].id = token.impersonation_session_id
              /\ impersonations[i].ended_at # NoTime
              /\ ~Before(impersonations[i].expires_at, NaiveNow)
        /\ CurrentUserWithImpersonation(token).code = 401

(* C3: start by an admin on an active target other than the admin answers  *)
(* 200, and every impersonation access token resolves, while its session   *)
(* row is Active and unexpired, to the row's target with a context naming  *)
(* the row's admin and id; whoami reports is_impersonating.                *)
C3_StartThenResolveTarget ==
    /\ \A token \in issued, target \in UserIds, reason \in Reasons :
          (/\ AdminGate(token).ok
           /\ target # AdminGate(token).user
           /\ users[target].is_active)
            => StartResponse(token, target, reason, now, users, sessions,
                             nextUlid).code = 200
    /\ \A token \in issued, i \in DOMAIN impersonations :
          (/\ token.impersonation
           /\ token.type = "access"
           /\ Unexpired(token)
           /\ impersonations[i].id = token.impersonation_session_id
           /\ impersonations[i].status = ACTIVE
           /\ ~Before(impersonations[i].expires_at, NaiveNow))
            => LET r == CurrentUserWithImpersonation(token)
                   w == WhoamiResponse(token, now, users, sessions, impersonations)
               IN  /\ r.ok
                   /\ r.user = impersonations[i].target_user_id
                   /\ r.ctx.admin_user_id = impersonations[i].admin_user_id
                   /\ r.ctx.impersonation_session_id = impersonations[i].id
                   /\ w.code = 200
                   /\ w.is_impersonating
                   /\ w.user_id = impersonations[i].target_user_id

C3_Witness ==
    \E token \in issued, i \in DOMAIN impersonations :
        /\ token.impersonation
        /\ token.type = "access"
        /\ Unexpired(token)
        /\ impersonations[i].id = token.impersonation_session_id
        /\ impersonations[i].status = ACTIVE
        /\ users[impersonations[i].admin_user_id].is_admin
        /\ CurrentUserWithImpersonation(token).user = impersonations[i].target_user_id
        /\ CurrentUserWithImpersonation(token).ctx.admin_user_id
              = impersonations[i].admin_user_id

(* C4: an admin-gated operation called with a live impersonation token     *)
(* whose target is not an admin is refused with 403.                       *)
C4_ImpersonationTokenForbidden ==
    \A token \in issued :
        (/\ token.impersonation
         /\ Unexpired(token)
         /\ ImpersonationRowLive(token)
         /\ ~users[token.sub].is_admin)
            => /\ AdminGate(token).code = 403
               /\ ListResponse(token, now, users, sessions, impersonations).code = 403

(* C5: a live impersonation access token is accepted by GET /auth/me,      *)
(* which sees the impersonation target as the current user.                *)
C5_ImpersonationTokenAccepted ==
    \A token \in issued :
        (/\ token.impersonation
         /\ token.type = "access"
         /\ Unexpired(token)
         /\ ImpersonationRowLive(token))
            => /\ MeResponse(token, now, users, sessions).code = 200
               /\ MeResponse(token, now, users, sessions).user = token.sub

(* C6: no stored impersonation session has admin_user_id equal to          *)
(* target_user_id, and start on oneself answers 400 with no token.         *)
C6_NoSelfImpersonation ==
    /\ \A i \in DOMAIN impersonations :
          impersonations[i].admin_user_id # impersonations[i].target_user_id
    /\ \A token \in issued, reason \in Reasons :
          AdminGate(token).ok
            => LET r == StartResponse(token, AdminGate(token).user, reason, now,
                                      users, sessions, nextUlid)
               IN  /\ r.code = 400
                   /\ r.access = NoToken
                   /\ r.refresh = NoToken
                   /\ r.sid = NoUlid

C6_Witness ==
    /\ impersonations # << >>
    /\ \E token \in issued, reason \in Reasons :
          /\ AdminGate(token).ok
          /\ StartResponse(token, AdminGate(token).user, reason, now, users,
                           sessions, nextUlid).code = 400

(* C7: after logout has answered 200 for a token of session S, the stored  *)
(* status of S is Revoked.                                                 *)
C7_LogoutRevokes ==
    \A i \in DOMAIN sessions :
        sessions[i].session_token \in loggedOut => sessions[i].status = REVOKED

(* C8: once a revoke of a session has committed, no token of that session  *)
(* resolves, whatever a refresh that read the row before the revoke then   *)
(* answers: neither the issued tokens, nor the access token that refresh   *)
(* returns, nor the access token its minting step builds.                  *)
C8_RevokeBeatsRefresh ==
    \A st \in revokedTokens :
        /\ \A token \in issued :
              token.session_token = st
                => ~CurrentUser(token).ok /\ ~CurrentUserWithImpersonation(token).ok
        /\ (refreshReq.pc = "read" /\ refreshReq.token.session_token = st)
              => LET answer == RefreshAnswer(refreshReq.token, refreshReq.row, now)
                 IN  answer.code = 200
                       => /\ ~CurrentUser(answer.access).ok
                          /\ ~CurrentUserWithImpersonation(answer.access).ok
        /\ (refreshReq.pc = "read" /\ refreshReq.token.session_token = st)
              => LET minted == RefreshMint(refreshReq.token, now)
                 IN  /\ Unexpired(minted)
                     /\ ~CurrentUser(minted).ok
                     /\ ~CurrentUserWithImpersonation(minted).ok

(* A refresh holds the row it read as Active while the revoke has since    *)
(* committed, and its token, still within exp, is refused.                 *)
C8_Witness ==
    /\ refreshReq.pc = "read"
    /\ refreshReq.row.status = ACTIVE
    /\ ~Before(refreshReq.row.expires_at, NaiveNow)
    /\ refreshReq.token.session_token \in revokedTokens
    /\ Unexpired(refreshReq.token)
    /\ ~CurrentUser(refreshReq.token).ok

(* C9: login of an active user with the matching password answers 200,     *)
(* appends exactly one Session row owned by that user with status Active,  *)
(* and returns an access and a refresh token whose sub is the user and     *)
(* whose session_token is that row's.                                      *)
C9_LoginCreatesSession ==
    /\ [](\A u \in UserIds, password \in Passwords :
            (users[u].is_active
             /\ verify_password(password, users[u].hashed_password))
              => LoginResponse(users[u].username, password, users, now,
                               nextUlid).code = 200)
    /\ [][\A username \in Usernames, password \in Passwords :
            (LoginCheck(username, password, users).ok /\ Login(username, password))
              => LET r == LoginResponse(username, password, users, now, nextUlid)
                     row == sessions'[Len(sessions')]
                 IN  /\ Len(sessions') = Len(sessions) + 1
                     /\ SubSeq(sessions', 1, Len(sessions)) = sessions
                     /\ users[row.user_id].username = username
                     /\ row.status = ACTIVE
                     /\ r.code = 200
                     /\ r.user = row.user_id
                     /\ r.access.type = "access"
                     /\ r.refresh.type = "refresh"
                     /\ r.access.sub = row.user_id
                     /\ r.refresh.sub = row.user_id
                     /\ r.access.session_token = row.session_token
                     /\ r.refresh.session_token = row.session_token
                     /\ issued' = issued \cup {r.access, r.refresh}]_vars

C9_Witness ==
    \E i \in DOMAIN sessions, a \in issued, r \in issued :
        /\ sessions[i].status = ACTIVE
        /\ a.type = "access" /\ r.type = "refresh"
        /\ a.sub = sessions[i].user_id /\ r.sub = sessions[i].user_id
        /\ a.session_token = sessions[i].session_token
        /\ r.session_token = sessions[i].session_token
        /\ CurrentUser(a).user = sessions[i].user_id

C11_RefreshRefusesAccessToken ==
    \A token \in issued :
        (token.type = "access" /\ Unexpired(token))
            => LET r == RefreshResponse(token, now, sessions)
               IN  /\ r.code = 401
                   /\ r.detail = "Invalid refresh token"
                   /\ r.access = NoToken
                   /\ r.refresh = NoToken

C11_Witness ==
    \E token \in issued :
        /\ token.type = "access"
        /\ ~token.impersonation
        /\ Unexpired(token)
        /\ SessionRowLive(token)
        /\ CurrentUser(token).ok
        /\ RefreshResponse(token, now, sessions).code = 401

(* C12: for every ordinary session that is Active and unexpired, refresh   *)
(* with its unexpired refresh token answers 200 with a new access token    *)
(* carrying the refresh token's sub and session_token, and returns the     *)
(* same refresh token.                                                     *)
C12_RefreshSucceeds ==
    \A token \in issued :
        (/\ token.type = "refresh"
         /\ ~token.impersonation
         /\ Unexpired(token)
         /\ SessionRowLive(token))
            => LET r == RefreshResponse(token, now, sessions)
               IN  /\ r.code = 200
                   /\ r.access.type = "access"
                   /\ r.access.sub = token.sub
                   /\ r.access.session_token = token.session_token
                   /\ r.refresh = token

(* C13: refresh with an unexpired refresh token whose session is Revoked   *)
(* or past its expires_at answers 401 and returns no access token.         *)
C13_RefreshRefusesDeadSession ==
    \A token \in issued :
        (/\ token.type = "refresh"
         /\ ~token.impersonation
         /\ Unexpired(token)
         /\ ~SessionRowLive(token))
            => LET r == RefreshResponse(token, now, sessions)
               IN  /\ r.code = 401
                   /\ r.access = NoToken

(* C14: no step of refresh, whatever it answers, changes a Session row,    *)
(* and the expires_at a row got at login is never changed by any step.     *)
C14_RefreshKeepsExpiry ==
    [][/\ ((\E token \in issued : RefreshRead(token)) \/ RefreshFinish)
            => sessions' = sessions
       /\ \A i \in DOMAIN sessions :
            sessions'[i].expires_at = sessions[i].expires_at]_vars

(* A refresh has read an Active row some time after login, and the row     *)
(* still carries the expiry it got at login.                               *)
C14_Witness ==
    /\ refreshReq.pc = "read"
    /\ now > 0
    /\ \E i \in DOMAIN sessions :
          /\ sessions[i].id = refreshReq.row.id
          /\ sessions[i].status = ACTIVE
          /\ sessions[i].expires_at = refreshReq.row.expires_at
          /\ sessions[i].expires_at.t < now + SESSION_MINUTES

(* C15: whenever a resolver accepts a token, the clock is not past the     *)
(* token's exp, and the session row of the kind the token names (Session   *)
(* for an ordinary token, ImpersonationSession for an impersonation token) *)
(* exists, is Active and is not past its expires_at.                       *)
C15_ResolvedMeansLive ==
    \A token \in issued :
        /\ CurrentUser(token).ok
              => /\ now <= token.exp
                 /\ ~token.impersonation
                 /\ SessionRowLive(token)
        /\ CurrentUserWithImpersonation(token).ok
              => /\ now <= token.exp
                 /\ IF token.impersonation
                    THEN ImpersonationRowLive(token)
                    ELSE SessionRowLive(token)

(* An ordinary and an impersonation token both resolve, while another      *)
(* token is refused only because its exp or its session's expiry has       *)
(* passed.                                                                 *)
C15_Witness ==
    \E t1 \in issued, t2 \in issued, t3 \in issued :
        /\ ~t1.impersonation /\ CurrentUser(t1).ok
        /\ t2.impersonation /\ CurrentUserWithImpersonation(t2).ok
        /\ ~CurrentUserWithImpersonation(t3).ok
        /\ \/ t3.exp < now
           \/ \E i \in DOMAIN sessions :
                 /\ sessions[i].session_token = t3.session_token
                 /\ sessions[i].status = ACTIVE
                 /\ Before(sessions[i].expires_at, NaiveNow)

(* C16: end(session_id, X) by an authenticated admin X answers 200 exactly *)
(* when a row with that id, admin_user_id = X and status Active exists,    *)
(* and then sets that row's ended_at and status = Revoked and nothing      *)
(* else; otherwise (unknown id, another admin's session, session already   *)
(* ended) it answers 404 and changes no row; an end repeated right after a *)
(* successful one answers 404.                                             *)
C16_EndExactlyOwnActive ==
    /\ [](\A token \in issued, session_id \in ImpersonationIdInputs \ {NoUlid} :
            AdminGate(token).ok
              => LET r == EndResponse(token, session_id, now, users, sessions,
                                      impersonations)
                     own == \E i \in DOMAIN impersonations :
                               /\ impersonations[i].id = session_id
                               /\ impersonations[i].admin_user_id
                                     = AdminGate(token).user
                               /\ impersonations[i].status = ACTIVE
                 IN  r.code = IF own THEN 200 ELSE 404)
    /\ [][\A token \in issued, session_id \in ImpersonationIdInputs \ {NoUlid} :
            (AdminGate(token).ok /\ EndImpersonation(token, session_id))
              => IF EndResponse(token, session_id, now, users, sessions,
                                impersonations).code = 200
                 THEN /\ \A i \in DOMAIN impersonations :
                            IF impersonations[i].id = session_id
                            THEN /\ impersonations'[i].status = REVOKED
                                 /\ impersonations'[i].ended_at # NoTime
                                 /\ impersonations'[i] =
                                       [impersonations[i] EXCEPT
                                           !.status = impersonations'[i].status,
                                           !.ended_at = impersonations'[i].ended_at]
                            ELSE impersonations'[i] = impersonations[i]
                      /\ Len(impersonations') = Len(impersonations)
                      /\ sessions' = sessions
                      /\ EndResponse(token, session_id, now', users', sessions',
                                     impersonations').code = 404
                 ELSE /\ impersonations' = impersonations
                      /\ sessions' = sessions]_vars

(* A session has been ended by its admin, who asks to end it again and     *)
(* gets 404.                                                               *)
C16_Witness ==
    \E token \in issued, i \in DOMAIN impersonations :
        /\ impersonations[i].id \in endedIds
        /\ impersonations[i].status = REVOKED
        /\ impersonations[i].ended_at # NoTime
        /\ AdminGate(token).ok
        /\ AdminGate(token).user = impersonations[i].admin_user_id
        /\ EndResponse(token, impersonations[i].id, now, users, sessions,
                       impersonations).code = 404

(* C17: a start or an end of an impersonation session changes no Session   *)
(* row and no ordinary token's resolution; an ordinary token whose own     *)
(* session is Active and unexpired resolves to its user, with no           *)
(* impersonation context, whatever impersonation sessions exist.           *)
C17_ImpersonationLeavesSessions ==
    /\ [](\A token \in issued :
            (~token.impersonation /\ Unexpired(token) /\ SessionRowLive(token))
              => /\ CurrentUser(token) = Resolved(token.sub, NoCtx)
                 /\ CurrentUserWithImpersonation(token) = Resolved(token.sub, NoCtx))
    /\ [][((\E token \in issued, target_user_id \in TargetInputs, reason \in Reasons :
                StartImpersonation(token, target_user_id, reason))
           \/ (\E token \in issued, session_id \in ImpersonationIdInputs :
                EndImpersonation(token, session_id)))
            => /\ sessions' = sessions
               /\ \A token \in issued :
                    ~token.impersonation
                      => /\ get_current_user(token, now', users', sessions')
                              = CurrentUser(token)
                         /\ get_current_user_with_impersonation(
                                token, now', users', sessions', impersonations')
                              = CurrentUserWithImpersonation(token)]_vars

(* The admin has started and ended an impersonation, and the token of the  *)
(* admin's own login still resolves to the admin.                          *)
C17_Witness ==
    \E token \in issued, i \in DOMAIN impersonations :
        /\ ~token.impersonation
        /\ impersonations[i].id \in endedIds
        /\ impersonations[i].status = REVOKED
        /\ token.sub = impersonations[i].admin_user_id
        /\ CurrentUser(token) = Resolved(impersonations[i].admin_user_id, NoCtx)

(* C18: in every step of login, refresh, logout, revoke, revoke_all,       *)
(* start and end, a Session or ImpersonationSession row whose status is    *)
(* not Active keeps a status that is not Active, and no row disappears.    *)
C18_StatusMonotone ==
    [][/\ \A i \in DOMAIN sessions :
            /\ i \in DOMAIN sessions'
            /\ sessions[i].status # ACTIVE => sessions'[i].status # ACTIVE
       /\ \A i \in DOMAIN impersonations :
            /\ i \in DOMAIN impersonations'
            /\ impersonations[i].status # ACTIVE
                  => impersonations'[i].status # ACTIVE]_vars

(* A Session and an ImpersonationSession have both left Active, and a      *)
(* request to revoke the Session again is still answered.                  *)
C18_Witness ==
    \E i \in DOMAIN sessions, j \in DOMAIN impersonations, token \in issued :
        /\ sessions[i].status = REVOKED
        /\ impersonations[j].status = REVOKED
        /\ RevokeResponse(token, sessions[i].id, now, users, sessions).code = 200

C20_RevokeOnlyOwnSession ==
    /\ [](\A token \in issued, session_id \in SessionIdInputs :
            (/\ CurrentUser(token).ok
             /\ ~\E i \in DOMAIN sessions :
                    /\ sessions[i].id = session_id
                    /\ sessions[i].user_id = CurrentUser(token).user)
              => LET r == RevokeResponse(token, session_id, now, users, sessions)
                 IN  r.code = 404 /\ r.detail = "Session not found")
    /\ [][\A token \in issued, session_id \in SessionIdInputs :
            RevokeSession(token, session_id)
              => /\ RevokeResponse(token, session_id, now, users, sessions).code = 404
                    => sessions' = sessions
                 /\ \A i \in DOMAIN sessions :
                      sessions'[i] # sessions[i]
                        => /\ CurrentUser(token).ok
                           /\ sessions[i].user_id = CurrentUser(token).user
                           /\ sessions[i].id = session_id]_vars

(* A user holding a live token names the Active session of another user    *)
(* and gets 404.                                                           *)
C20_Witness ==
    \E token \in issued, i \in DOMAIN sessions :
        /\ CurrentUser(token).ok
        /\ sessions[i].user_id # CurrentUser(token).user
        /\ sessions[i].status = ACTIVE
        /\ ~Before(sessions[i].expires_at, NaiveNow)
        /\ RevokeResponse(token, sessions[i].id, now, users, sessions).code = 404

(* C21: start by an authenticated admin on a target other than the admin   *)
(* that does not exist or has is_active = false answers 404, adds no       *)
(* ImpersonationSession row and returns no token; no step of start adds a  *)
(* row or a token unless the target exists and is active.                  *)
C21_StartNeedsUsableTarget ==
    /\ [](\A token \in issued, target_user_id \in TargetInputs, reason \in Reasons :
            (/\ AdminGate(token).ok
             /\ target_user_id # AdminGate(token).user
             /\ \/ target_user_id \notin UserIds
                \/ ~users[target_user_id].is_active)
              => LET r == StartResponse(token, target_user_id, reason, now, users,
                                        sessions, nextUlid)
                 IN  /\ r.code = 404
                     /\ r.detail = "Target user not found or inactive"
                     /\ r.access = NoToken
                     /\ r.refresh = NoToken
                     /\ r.sid = NoUlid
                     /\ StartRows(token, target_user_id, reason, now, users,
                                  sessions, impersonations, nextUlid)
                           = impersonations)
    /\ [][\A token \in issued, target_user_id \in TargetInputs, reason \in Reasons :
            (/\ StartImpersonation(token, target_user_id, reason)
             /\ (impersonations' # impersonations \/ issued' # issued))
              => /\ target_user_id \in UserIds
                 /\ users[target_user_id].is_active]_vars

(* An admin holding a live token names a deactivated account and gets 404  *)
C21_Witness ==
    \E token \in issued, target_user_id \in UserIds, reason \in Reasons :
        /\ AdminGate(token).ok
        /\ target_user_id # AdminGate(token).user
        /\ ~users[target_user_id].is_active
        /\ StartResponse(token, target_user_id, reason, now, users, sessions,
                         nextUlid).code = 404

(* C22: login for an account whose is_active is false never answers 200,   *)
(* returns no token and adds no Session row, whatever the password; with   *)
(* the matching password the answer is 400 "Inactive user"; and no step of *)
(* login adds a row for an account that is not active.                     *)
C22_InactiveLoginRefused ==
    /\ [](\A u \in UserIds, password \in Passwords :
            ~users[u].is_active
              => LET r == LoginResponse(users[u].username, password, users, now,
                                        nextUlid)
                 IN  /\ r.code # 200
                     /\ r.access = NoToken
                     /\ r.refresh = NoToken
                     /\ LoginRows(users[u].username, password, users, sessions,
                                  now, nextUlid) = sessions
                     /\ verify_password(password, users[u].hashed_password)
                          => (r.code = 400 /\ r.detail = "Inactive user"))
    /\ [][\A username \in Usernames, password \in Passwords :
            (Login(username, password) /\ sessions' # sessions)
              => users[sessions'[Len(sessions')].user_id].is_active]_vars

(* A deactivated account presents its own password and gets 400, while a   *)
(* session it opened before is still stored.                               *)
C22_Witness ==
    \E u \in UserIds, i \in DOMAIN sessions :
        /\ ~users[u].is_active
        /\ sessions[i].user_id = u
        /\ LoginResponse(users[u].username, "secret", users, now, nextUlid).code = 400

(* C23: a token of kind refresh presented as the bearer token is never     *)
(* resolved to a user, by either resolver.                                 *)
C23_RefreshTokenNeverResolves ==
    \A token \in issued :
        token.type = "refresh"
            => /\ ~CurrentUser(token).ok
               /\ ~CurrentUserWithImpersonation(token).ok

(* C24: for every ordinary session whose status is Active and every clock  *)
(* reading just before, exactly at and just after its expires_at, the      *)
(* resolver accepts the session if and only if get_active_sessions returns *)
(* it, and if and only if refresh accepts it.                              *)
C24_SameExpiryCheckEverywhere ==
    \A i \in DOMAIN sessions :
        sessions[i].status = ACTIVE
            => \A t \in {sessions[i].expires_at.t - 1, sessions[i].expires_at.t,
                         sessions[i].expires_at.t + 1} :
                 LET resolves == UserSessionCheck(sessions, sessions[i].session_token,
                                                  ReplaceTzNone(UtcNow(t))) = "ok"
                     listed == i \in get_active_sessions(sessions,
                                                         sessions[i].user_id, t)
                     refreshes == RefreshCheck(
                                      RefreshSelect(
                                          OrdinaryClaims(sessions[i].user_id,
                                                         sessions[i].session_token),
                                          sessions), t) = "ok"
                 IN  /\ resolves <=> listed
                     /\ resolves <=> refreshes

(* C25: the lifetime a new ImpersonationSession gets (expires_at minus the *)
(* time of creation) is strictly shorter than the lifetime a new Session   *)
(* gets at login.                                                          *)
C25_ImpersonationShorterLived ==
    \A admin \in UserIds, target \in UserIds, reason \in Reasons :
        NewImpersonationSession(admin, target, reason, now, nextUlid).expires_at.t - now
            < NewUserSession(target, now, nextUlid).expires_at.t - now

C27_AtMostOneEndSucceeds ==
    [][/\ (EndWrite /\ EndWriteResponse.code = 200)
            => endReq.session_id \notin endedIds
       /\ \A token \in issued, session_id \in ImpersonationIdInputs :
            (/\ EndImpersonation(token, session_id)
             /\ EndResponse(token, session_id, now, users, sessions,
                            impersonations).code = 200)
              => session_id \notin endedIds]_vars

(* C28: every token handed out for an impersonation session carries        *)
(* impersonation = true, the session's admin as admin_user_id, its target  *)
(* as sub and its id; and refresh with an impersonation token answers 401  *)
(* and returns no access token, so no ordinary token for the target comes  *)
(* out of an impersonation session.                                        *)
C28_ProvenanceKept ==
    /\ \A token \in issued, i \in DOMAIN impersonations :
          token.session_token = impersonations[i].session_token
            => /\ token.impersonation
               /\ token.admin_user_id = impersonations[i].admin_user_id
               /\ token.sub = impersonations[i].target_user_id
               /\ token.impersonation_session_id = impersonations[i].id
    /\ \A token \in issued :
          token.impersonation
            => LET r == RefreshResponse(token, now, sessions)
               IN  /\ r.code = 401
                   /\ r.access = NoToken
    /\ \A token \in issued :
          (~token.impersonation /\ token.sub # NoUser)
            => \E i \in DOMAIN sessions :
                  /\ sessions[i].session_token = token.session_token
                  /\ sessions[i].user_id = token.sub

(* The refresh token of a live impersonation session, within its exp, is   *)
(* presented to refresh and answered 401.                                  *)
C28_Witness ==
    \E token \in issued :
        /\ token.impersonation
        /\ token.type = "refresh"
        /\ Unexpired(token)
        /\ ImpersonationRowLive(token)
        /\ CurrentUserWithImpersonation(token).ok
        /\ RefreshResponse(token, now, sessions).code = 401

(* C29: a request that carries an impersonation token neither creates nor  *)
(* ends an ImpersonationSession row (start and end answer 401 and leave    *)
(* the table as it is), and whenever a row is created or ended, the row's  *)
(* admin_user_id is a user with is_admin who holds an ordinary token that  *)
(* resolves through a live ordinary session at that moment.                *)
C29_NoNestedImpersonation ==
    /\ [](\A token \in issued :
            token.impersonation
              => /\ \A target_user_id \in UserIds, reason \in Reasons :
                       /\ StartResponse(token, target_user_id, reason, now, users,
                                        sessions, nextUlid).code = 401
                       /\ StartRows(token, target_user_id, reason, now, users,
                                    sessions, impersonations, nextUlid)
                            = impersonations
                 /\ \A session_id \in ImpersonationIdInputs :
                       EndResponse(token, session_id, now, users, sessions,
                                   impersonations).code = 401)
    /\ [][\A i \in DOMAIN impersonations' :
            (\/ i \notin DOMAIN impersonations
             \/ impersonations'[i] # impersonations[i])
              => \E token \in issued :
                    /\ ~token.impersonation
                    /\ token.sub = impersonations'[i].admin_user_id
                    /\ CurrentUser(token).ok
                    /\ SessionRowLive(token)
                    /\ users[token.sub].is_admin]_vars

(* A live impersonation session whose target is itself an admin: its token *)
(* asks to impersonate the other user and to end its own session, and both *)
(* requests are answered 401.                                              *)
C29_Witness ==
    \E token \in issued :
        /\ token.impersonation
        /\ Unexpired(token)
        /\ ImpersonationRowLive(token)
        /\ users[token.sub].is_admin
        /\ users[token.sub].is_active
        /\ TargetUsable(users, token.admin_user_id)
        /\ \A reason \in Reasons :
              StartResponse(token, token.admin_user_id, reason, now, users,
                            sessions, nextUlid).code = 401
        /\ EndResponse(token, token.impersonation_session_id, now, users,
                       sessions, impersonations).code = 401

(* C30: no token resolves, through either resolver, to a user whose        *)
(* is_active flag is false: ordinary tokens of a deactivated user and      *)
(* impersonation tokens targeting a deactivated user are refused.          *)
C30_InactiveNeverResolves ==
    \A token \in issued :
        /\ CurrentUser(token).ok
             => users[CurrentUser(token).user].is_active
        /\ CurrentUserWithImpersonation(token).ok
             => users[CurrentUserWithImpersonation(token).user].is_active

====
